---- MODULE Spec2Model ----
(***************************************************************************)
(* Model of the archive resolution engine of obsidian-link-archiver        *)
(* (src/main.ts): RateLimiter, ArchiveCache, classifyArchiveError,         *)
(* getExistingArchive with its two providers, and the batch loops that     *)
(* call it.  Times are milliseconds, as in the source.                     *)
(***************************************************************************)
EXTENDS Integers, Sequences, FiniteSets, TLC

\* ------------------------------------------------------------------ bounds
\* Date.now() when the plugin is loaded (ms).
StartTime == 5000
\* Steps of the environment: steps of the clock besides the program's own
\* timers, and changes of the archive site setting.
MaxTicks == 2
\* Number of getExistingArchive calls (retryCount = 0) one behaviour makes.
MaxCalls == 2
\* Calls of waitIfNeeded, and steps of the clock, of the limiter on its own.
MaxRLCalls == 3
MaxRLTicks == 3
\* Links of one file, and files of one vault batch.
MaxLinks == 2
MaxFiles == 2
\* TitleCache.maxSize, which is 500 in the source (line 165), scaled down:
\* the code only compares the size of the map with it.
TitleMaxSize == 2
\* Steps of the clock while the caches are used on their own.
MaxCacheTicks == 2

\* ------------------------------------------------------ program constants
WaybackDelay == 1000
GhostDelay == 2000
DefaultDelay == 1000
ArchiveTtl == 300000
TitleTtl == 86400000
MaxRetries == 2
BackoffBase == 1000
NoteLinkDelay == 1000
\* settings.maxSnapshots: its default, and the range the settings tab accepts.
DefaultMaxSnapshots == 5
LeastMaxSnapshots == 1
MostMaxSnapshots == 300

WAYBACK == "web.archive.org"
GHOST == "ghostarchive.org"
\* Object.keys(ARCHIVE_SITES): the values the archiveSite dropdown offers.
ARCHIVE_SITES == {GHOST, WAYBACK}

\* enum ArchiveErrorType
RATE_LIMITED == "rate_limited"
CAPTCHA_REQUIRED == "captcha_required"
IP_BLOCKED == "ip_blocked"
SERVICE_UNAVAILABLE == "service_unavailable"
NETWORK_ERROR == "network_error"
UNKNOWN == "unknown"
ArchiveErrorType ==
  {RATE_LIMITED, CAPTCHA_REQUIRED, IP_BLOCKED, SERVICE_UNAVAILABLE, NETWORK_ERROR, UNKNOWN}
\* Not a kind: the classifier raised a TypeError instead of returning one.
TypeErrorRaised == "TypeError"

\* --------------------------------------------------------------- inputs
\* Original URLs: a plain page, a YouTube link with an extractable video id,
\* and a YouTube link from which no id can be extracted.
Urls == {"page", "ytid", "ytnoid"}
IsYouTube(url) == url \in {"ytid", "ytnoid"}
HasVideoId(url) == url = "ytid"

NoStatus == 0
\* Snapshot timestamps, and the rows of a listing: each row carries one.
Stamps == {1, 2}
RECURSIVE SeqsUpTo(_, _)
SeqsUpTo(S, n) ==
  IF n = 0 THEN {<<>>}
  ELSE LET shorter == SeqsUpTo(S, n - 1)
       IN shorter \cup {Append(s, x) : s \in {t \in shorter : Len(t) = n - 1}, x \in S}
RowLists == {<<>>, <<1, 2>>}

\* What the network does with one HTTP request: it answers with a status
\* (200 with a body of rows, or another status), or the transport fails with
\* a message.  msg is the set of the classifier's keywords that the lowercased
\* message contains; text the set of markers the body contains.
ErrorStatuses == {403, 404, 429, 503}
NetMessages == {{}, {"network"}}
\* The promise of a request may also be rejected with a value that is no
\* Error object; null stands for these.
Replies ==
  [kind : {"ok"}, rows : RowLists]
    \cup [kind : {"status"}, status : ErrorStatuses]
    \cup [kind : {"neterr"}, msg : NetMessages]
    \cup [kind : {"reject"}, value : {"null"}]
IsTransportFailure(reply) ==
  reply.kind = "neterr" \/ (reply.kind = "status" /\ reply.status # 404)

\* ------------------------------------------------------------ RateLimiter
\* The services the limiter is asked about; "other" is a name its table
\* does not hold.
Services == {WAYBACK, GHOST, "other"}

\* this.delays.get(serviceName) || 1000
RateLimiterDelay(serviceName) ==
  CASE serviceName = WAYBACK -> WaybackDelay
    [] serviceName = GHOST -> GhostDelay
    [] OTHER -> DefaultDelay

\* Mutant: the delay of the default is used for every service.
WaitTimeDefaultDelay(serviceName, lastRequest, t) ==
  LET timeSinceLastRequest == t - lastRequest
  IN IF timeSinceLastRequest < DefaultDelay
       THEN DefaultDelay - timeSinceLastRequest ELSE 0

\* Lines 116-123: the time waitIfNeeded sleeps, 0 when it does not sleep.
WaitTime(serviceName, lastRequest, t) ==
  LET delay == RateLimiterDelay(serviceName)
      timeSinceLastRequest == t - lastRequest
  IN IF timeSinceLastRequest < delay THEN delay - timeSinceLastRequest ELSE 0

\* Mutant: a caller that has to sleep books the next free slot at once, so
\* that callers queue one gap apart.
WaitIfNeededStartBooking(serviceName, lastRequest, t) ==
  LET waitTime == WaitTime(serviceName, lastRequest, t)
  IN [waitTime |-> waitTime,
      lastRequest |-> IF waitTime > 0 THEN t + waitTime ELSE t]

\* Lines 115-127, waitIfNeeded up to its await: the time it sleeps and
\* lastRequestTime[serviceName] when it sleeps or, without a sleep, returns
\* (the entry is written only after the sleep).
WaitIfNeededStart(serviceName, lastRequest, t) ==
  LET waitTime == WaitTime(serviceName, lastRequest, t)
  IN [waitTime |-> waitTime,
      lastRequest |-> IF waitTime > 0 THEN lastRequest ELSE t]

\* ----------------------------------------------------------- ArchiveCache
\* The cache is a Map: a function whose domain is the set of stored keys.
NotFoundResult ==
  [foundArchive |-> FALSE, rateLimited |-> FALSE, archivedUrl |-> <<>>, snapshots |-> <<>>]
RateLimitedResult ==
  [foundArchive |-> FALSE, rateLimited |-> TRUE, archivedUrl |-> <<>>, snapshots |-> <<>>]
\* Mutant: the best URL is taken from the last snapshot of the list.
FoundResultLastSnapshot(snapshots) ==
  [foundArchive |-> TRUE, rateLimited |-> FALSE,
   archivedUrl |-> snapshots[Len(snapshots)].url, snapshots |-> snapshots]

\* Lines 1867-1871 and 1941-1945: { foundArchive: true, archivedUrl:
\* snapshots[0].url, snapshots }.  A result without archivedUrl has <<>>.
FoundResult(snapshots) ==
  [foundArchive |-> TRUE, rateLimited |-> FALSE,
   archivedUrl |-> snapshots[1].url, snapshots |-> snapshots]

MapDelete(m, k) == [x \in DOMAIN m \ {k} |-> m[x]]
MapSet(m, k, v) == [x \in DOMAIN m \cup {k} |-> IF x = k THEN v ELSE m[x]]

\* Mutant: an entry expires as soon as its age reaches the ttl.
CacheExpiredAtTtl(entry, t) == t - entry.timestamp >= ArchiveTtl

\* now - entry.timestamp > this.ttl
CacheExpired(entry, t) == t - entry.timestamp > ArchiveTtl

\* ArchiveCache.get: hit says whether a value is returned; cache is the map
\* after the call (an expired entry is deleted).
CacheGet(cache, url, t) ==
  IF url \notin DOMAIN cache
    THEN [hit |-> FALSE, result |-> NotFoundResult, cache |-> cache]
  ELSE IF CacheExpired(cache[url], t)
    THEN [hit |-> FALSE, result |-> NotFoundResult, cache |-> MapDelete(cache, url)]
  ELSE [hit |-> TRUE, result |-> cache[url].result, cache |-> cache]

\* ArchiveCache.set
CacheSet(cache, url, result, t) ==
  MapSet(cache, url, [result |-> result, timestamp |-> t])

\* ArchiveCache.clear
CacheClear(cache) == <<>>

\* ------------------------------------------------------------- TitleCache
\* The Map of TitleCache is kept as the sequence of its entries in the
\* order the Map iterates them: the order in which the keys were added.
TitleKeys(cache) == {cache[i].url : i \in 1..Len(cache)}
TitleEntry(cache, url) == cache[CHOOSE i \in 1..Len(cache) : cache[i].url = url]
\* Map.delete
TitleDelete(cache, url) == SelectSeq(cache, LAMBDA e : e.url # url)
\* Map.set: the value of a key the Map holds is replaced where it is, a new
\* key is added at the end.
TitleMapSet(cache, entry) ==
  IF entry.url \in TitleKeys(cache)
    THEN [i \in 1..Len(cache) |-> IF cache[i].url = entry.url THEN entry ELSE cache[i]]
    ELSE Append(cache, entry)

\* Mutant: an entry of the title cache never expires.
TitleExpiredNever(entry, t) == FALSE

\* now - entry.timestamp > this.ttl
TitleExpired(entry, t) == t - entry.timestamp > TitleTtl

\* Mutant: a hit leaves the entry where it is in the Map.
TitleGetInPlace(cache, url, t) ==
  IF url \notin TitleKeys(cache)
    THEN [hit |-> FALSE, title |-> "", cache |-> cache]
  ELSE IF TitleExpired(TitleEntry(cache, url), t)
    THEN [hit |-> FALSE, title |-> "", cache |-> TitleDelete(cache, url)]
  ELSE [hit |-> TRUE, title |-> TitleEntry(cache, url).title, cache |-> cache]

\* TitleCache.get (lines 167-183): an expired entry is deleted; an entry
\* that is returned is deleted and added again, unchanged.
TitleGet(cache, url, t) ==
  IF url \notin TitleKeys(cache)
    THEN [hit |-> FALSE, title |-> "", cache |-> cache]
  ELSE LET entry == TitleEntry(cache, url)
       IN IF TitleExpired(entry, t)
            THEN [hit |-> FALSE, title |-> "", cache |-> TitleDelete(cache, url)]
            ELSE [hit |-> TRUE, title |-> entry.title,
                  cache |-> TitleMapSet(TitleDelete(cache, url), entry)]

\* Mutant: set never makes room.
TitleSetNoEviction(cache, url, title, t) ==
  TitleMapSet(cache, [url |-> url, title |-> title, timestamp |-> t])

\* TitleCache.set (lines 185-198): at maxSize the first key of the Map is
\* deleted (a key is a URL, so `if (firstKey)` holds), then the entry is set.
TitleSet(cache, url, title, t) ==
  LET room == IF Len(cache) >= TitleMaxSize THEN TitleDelete(cache, cache[1].url)
              ELSE cache
  IN TitleMapSet(room, [url |-> url, title |-> title, timestamp |-> t])

\* TitleCache.clear
TitleClear(cache) == <<>>

\* --------------------------------------------------- classifyArchiveError
\* An error value: status (NoStatus when it has none), msg and text as the
\* sets of keywords its message and its body contain.  An absent or empty
\* message or body holds no keyword; NonString is a field that is truthy and
\* no string (a number, say); isNull says that the value caught is null or
\* undefined.
NonString == {"<not a string>"}
ErrorOf(status, msg, text) ==
  [status |-> status, msg |-> msg, text |-> text, isNull |-> FALSE]
NullError == [status |-> NoStatus, msg |-> {}, text |-> {}, isNull |-> TRUE]

\* Lines 1982-2052, in the order the conditions are evaluated: err.status of
\* null, message.toLowerCase and text.includes of a value that is no string
\* raise a TypeError.
classifyArchiveError(err) ==
  IF err.isNull THEN TypeErrorRaised
  ELSE IF err.status = 429 THEN RATE_LIMITED
  ELSE IF err.msg = NonString THEN TypeErrorRaised
  ELSE IF err.msg \cap {"rate limit", "too many requests"} # {} THEN RATE_LIMITED
  ELSE IF err.status = 403 THEN CAPTCHA_REQUIRED
  ELSE IF err.text = NonString THEN TypeErrorRaised
  ELSE IF err.text \cap {"captcha", "CAPTCHA", "cloudflare", "challenge"} # {}
    THEN CAPTCHA_REQUIRED
  ELSE IF err.status = 403 /\ "forbidden" \in err.msg
    THEN IP_BLOCKED
  ELSE IF err.status \in {503, 504}
          \/ err.msg \cap {"service unavailable", "gateway timeout"} # {}
    THEN SERVICE_UNAVAILABLE
  ELSE IF err.msg \cap {"network", "timeout", "econnrefused"} # {}
    THEN NETWORK_ERROR
  ELSE UNKNOWN

\* ------------------------------------------------------------- providers
\* The stable sort of a snapshot list by descending timestamp.
RECURSIVE InsertByTimestamp(_, _)
InsertByTimestamp(x, sorted) ==
  IF sorted = <<>> THEN <<x>>
  ELSE IF Head(sorted).timestamp >= x.timestamp
    THEN <<Head(sorted)>> \o InsertByTimestamp(x, Tail(sorted))
  ELSE <<x>> \o sorted

RECURSIVE SortByTimestampDesc(_)
SortByTimestampDesc(snapshots) ==
  IF snapshots = <<>> THEN <<>>
  ELSE InsertByTimestamp(snapshots[Len(snapshots)],
                         SortByTimestampDesc(SubSeq(snapshots, 1, Len(snapshots) - 1)))

\* The sort of the GhostArchive branch: new Date(b.timestamp).getTime() -
\* new Date(a.timestamp).getTime().  A timestamp that is no date ("Unknown
\* date", 0 here) gives NaN, which sort takes as 0: the snapshot compares
\* equal to every other one.  The sort is stable; with such a comparator
\* the order of three or more snapshots is left to the engine, so listings
\* have at most two rows.
IsDate(timestamp) == timestamp # 0
DateBefore(a, b) == IsDate(a.timestamp) /\ IsDate(b.timestamp) /\ a.timestamp > b.timestamp

RECURSIVE InsertByDate(_, _)
InsertByDate(x, sorted) ==
  IF sorted = <<>> THEN <<x>>
  ELSE IF DateBefore(x, Head(sorted))
    THEN <<x>> \o sorted
  ELSE <<Head(sorted)>> \o InsertByDate(x, Tail(sorted))

RECURSIVE SortByDateDesc(_)
SortByDateDesc(snapshots) ==
  IF snapshots = <<>> THEN <<>>
  ELSE InsertByDate(snapshots[Len(snapshots)],
                    SortByDateDesc(SubSeq(snapshots, 1, Len(snapshots) - 1)))

\* Lines 1863 and 1929-1935: the sort of the branch of the site.
SortSnapshots(site, snapshots) ==
  IF site = WAYBACK THEN SortByTimestampDesc(snapshots) ELSE SortByDateDesc(snapshots)

\* `https://web.archive.org/web/${timestamp}/${originalUrl}`
WaybackUrl(timestamp, originalUrl) == <<WAYBACK, "web", timestamp, originalUrl>>
\* `https://ghostarchive.org/varchive/${videoId}`
GhostDirectUrl(originalUrl) == <<GHOST, "varchive", originalUrl>>
\* the link of the i-th row of a search listing
GhostRowUrl(i, originalUrl) == <<GHOST, "archive", i, originalUrl>>

\* The rows of a CDX answer as snapshots (the header row is not in rows).
WaybackSnapshots(originalUrl, rows) ==
  [i \in 1..Len(rows) |->
     [url |-> WaybackUrl(rows[i], originalUrl), timestamp |-> rows[i]]]

\* requestUrl with its default throw: a status of 400 or more, and a
\* transport failure, are raised as errors; thrown says which.
WaybackRequest(reply) ==
  CASE reply.kind = "ok" -> [thrown |-> FALSE, rows |-> reply.rows]
    [] reply.kind = "status" ->
         [thrown |-> TRUE, err |-> ErrorOf(reply.status, {}, {})]
    [] reply.kind = "neterr" ->
         [thrown |-> TRUE, err |-> ErrorOf(NoStatus, reply.msg, {})]
    [] reply.kind = "reject" ->
         [thrown |-> TRUE, err |-> NullError]

\* GhostArchiveArchiver.getSnapshots, the search request: requestUrl with
\* throw: false, any status but 200 gives [], and the catch gives [].
GhostSearchSnapshots(originalUrl, reply) ==
  IF reply.kind = "ok"
    THEN [i \in 1..Len(reply.rows) |->
            [url |-> GhostRowUrl(i, originalUrl), timestamp |-> reply.rows[i]]]
    ELSE <<>>

\* The video id getSnapshots extracts from a YouTube URL ("" for null).
VideoId(originalUrl) == IF HasVideoId(originalUrl) THEN originalUrl ELSE ""

\* The href of a row of the search listing: <<>> (no href), <<"/", dir, id>>
\* ("/archive/abc"), <<id>> (a bare id) or <<"http", host, id>> (an absolute
\* URL).  A URL is the tuple of its host and its path segments.
GhostHrefs ==
  {<<>>, <<"/", "archive", "abc">>, <<"/", "varchive", "ytid">>, <<"ytid">>,
   <<"http", "example.com", "ytid">>}
\* The timestamp cell of a row: 0 when it is empty ("Unknown date").
GhostRows == [href : GhostHrefs, timestamp : {0} \cup Stamps]
GhostListings ==
  {<<>>} \cup {<<r>> : r \in GhostRows} \cup {<<r1, r2>> : r1 \in GhostRows, r2 \in GhostRows}

\* Lines 3494-3505: the href of a row as a full URL.
GhostFullUrl(href, videoId) ==
  CASE href[1] = "/" -> <<GHOST, href[2], href[3]>>
    [] href[1] = "http" -> <<href[2], href[3]>>
    [] OTHER -> <<GHOST, IF videoId # "" /\ href[1] = videoId THEN "varchive" ELSE "archive",
                  href[1]>>

\* fullUrl.includes(videoId)
UrlIncludes(url, id) == \E i \in 1..Len(url) : url[i] = id

\* Lines 3463-3525: the rows of a search listing as snapshots.  A row with
\* no href is skipped, and for a video a row whose URL lacks the video id.
RECURSIVE GhostListingSnapshots(_, _)
GhostListingSnapshots(originalUrl, listing) ==
  IF listing = <<>> THEN <<>>
  ELSE LET row == Head(listing)
           rest == GhostListingSnapshots(originalUrl, Tail(listing))
           videoId == VideoId(originalUrl)
       IN IF row.href = <<>> THEN rest
          ELSE LET fullUrl == GhostFullUrl(row.href, videoId)
               IN IF videoId # "" /\ ~UrlIncludes(fullUrl, videoId) THEN rest
                  ELSE <<[url |-> fullUrl, timestamp |-> row.timestamp]>> \o rest

\* GhostArchiveArchiver.getYouTubeArchiveDirect: 200 gives one snapshot
\* whose timestamp is scraped from the page (0: "Unknown date").
GhostDirectSnapshots(originalUrl, reply) ==
  IF reply.kind = "ok"
    THEN <<[url |-> GhostDirectUrl(originalUrl),
            timestamp |-> IF reply.rows = <<>> THEN 0 ELSE reply.rows[1]]>>
    ELSE <<>>

\* Mutant: a rate-limited error is handled like any other error.
AfterErrorRateLimitFallsThrough(site, type, retries) ==
  IF site = WAYBACK /\ retries < MaxRetries
     /\ type \in {NETWORK_ERROR, SERVICE_UNAVAILABLE}
    THEN "retry"
  ELSE "fallthrough"

\* Mutant: every error but a rate limit is retried while retries are left.
AfterErrorRetriesAnyKind(site, type, retries) ==
  IF type = RATE_LIMITED THEN "rateLimited"
  ELSE IF site = WAYBACK /\ retries < MaxRetries THEN "retry"
  ELSE "fallthrough"

\* What the catch blocks of getExistingArchive do with a classified error:
\* "rateLimited" (return the flag), "retry" (sleep and recurse) or
\* "fallthrough" (go on to the code after the if/else chain).
AfterError(site, type, retries) ==
  IF type = RATE_LIMITED THEN "rateLimited"
  ELSE IF site = WAYBACK /\ retries < MaxRetries
          /\ type \in {NETWORK_ERROR, SERVICE_UNAVAILABLE}
    THEN "retry"
  ELSE "fallthrough"

\* Math.pow(2, retryCount) * 1000
RECURSIVE Pow2(_)
Pow2(n) == IF n = 0 THEN 1 ELSE 2 * Pow2(n - 1)
BackoffDelay(retries) == Pow2(retries) * BackoffBase

\* ----------------------------------------------------------------- state
VARIABLES
  now,              \* Date.now()
  ticks,            \* history: steps of the environment so far
  archiveSite,      \* settings.archiveSite
  lastRequestTime,  \* RateLimiter.lastRequestTime (0: no entry)
  archiveCache,     \* ArchiveCache.cache
  pc,               \* where the getExistingArchive call in progress stands
  originalUrl,      \* its argument
  retryCount,       \* its retryCount
  rlService,        \* the serviceName waitIfNeeded was called with
  wakeAt,           \* when the timer it sleeps on fires
  result,           \* the value it returned (pc = "done")
  caller,           \* who called it: "cursor", "note" or "vault"
  cacheHit,         \* history: the call was answered from the cache
  attempts,         \* history: provider attempts of the call
  httpCount,        \* history: HTTP requests of the call
  lastErrType,      \* history: kind of the last error a catch block classified
  lastFailure,      \* history: kind of the last transport failure of the call
  failSite,         \* history: the service that failure came from
  slept,            \* history: backoff sleeps of the call
  calls,            \* history: top-level calls made so far
  prev,             \* history: the call that returned last
  batchKind,        \* the batch that is running: "none", "note" or "vault"
  batchPc,          \* where it stands
  files,            \* links still to look up, per file
  batchWakeAt,      \* when the timer between two links of a note fires
  runRateLimited,   \* history: a lookup of this run returned rateLimited
  rlPc,             \* per caller of waitIfNeeded alone: "idle" or "sleeping"
  rlSvc,            \* the serviceName it was called with
  rlStartedAt,      \* history: when it was called
  rlWakeAt,         \* when its timer fires
  rlCalls,          \* history: calls of waitIfNeeded so far
  retPrev,          \* history, per service: when the call before the last returned
  retLast,          \* history, per service: when the last call returned
  maxSnapshots,     \* settings.maxSnapshots
  lookup,           \* history: the site, URL, limit and candidates of a lookup
  resolved,         \* the result of that lookup
  titleCache,       \* TitleCache.cache
  cacheOp,          \* history: the last operation on a cache, used directly
  touchOrder,       \* history: the keys of titleCache, least recently touched first
  cacheOps,         \* history: operations on the caches so far
  caught,           \* the error value last handed to classifyArchiveError
  classified,       \* what the classifier made of it ("none" before the first)
  targeting,        \* the targeted command: settings.useInvertedExclusion and
                    \* targetFolders, previousSetting, the open dialogs, and the
                    \* vault batch confirmed last (history)
  vault,            \* the vault batch on the files: their content (disk), the
                    \* batch's place, lines, modified and totalArchived, the
                    \* report, and what was written and edited (history)
  modal,            \* the ArchivePromptModal or ArchivePickerModal on screen
  modalCalls        \* the archiveLinkAtCursor calls that opened a modal

callVars == <<pc, originalUrl, retryCount, rlService, wakeAt, result, caller>>
histVars ==
  <<cacheHit, attempts, httpCount, lastErrType, lastFailure, failSite, slept, calls, prev>>
batchVars == <<batchKind, batchPc, files, batchWakeAt, runRateLimited>>
rlVars == <<rlPc, rlSvc, rlStartedAt, rlWakeAt, rlCalls, retPrev, retLast>>
lookupVars == <<maxSnapshots, lookup, resolved>>
cacheVars == <<titleCache, cacheOp, touchOrder, cacheOps>>
\* What the resolver and the batch loops leave alone.
errVars == <<caught, classified>>
targetVars == <<targeting>>
\* The variables of the commands that are modelled on their own.
vaultVars == <<vault>>
modalVars == <<modal, modalCalls>>
uiVars == <<targetVars, vaultVars, modalVars>>
sideVars == <<rlVars, lookupVars, cacheVars, errVars, uiVars>>
vars ==
  <<now, ticks, archiveSite, lastRequestTime, archiveCache, callVars, histVars, batchVars,
    sideVars>>

\* No time yet: the clock starts after it (line 117 reads an absent
\* lastRequestTime as 0).
Never == 0
\* Two tasks that call waitIfNeeded: a batch and a cursor command.
Callers == {"batch", "cursor"}
NoPrev == [url |-> "", result |-> NotFoundResult, errType |-> "none", hit |-> FALSE,
           at |-> 0, storedAt |-> Never, lastRequestTime |-> [s \in Services |-> Never],
           site |-> WAYBACK]

\* The notes of the vault the batch walks, in the order it walks them.
VaultNotes == {"a.md", "b.md"}
VaultNoteOrder == <<"a.md", "b.md">>
NotReported == [shown |-> FALSE, archivedCount |-> 0]
Report(total) == [shown |-> TRUE, archivedCount |-> total]
NoModal ==
  [open |-> FALSE, kind |-> "none", call |-> 0, step |-> "none", snapshots |-> <<>>,
   selectedUrl |-> "null", input |-> ""]
NoVaultModal == [open |-> FALSE, targeted |-> FALSE]
NoVaultRun ==
  [state |-> "none", targeted |-> FALSE, inverted |-> FALSE, folders |-> <<>>,
   filesToProcess |-> {}]
\* Lines 62-67: the defaults of the settings; no dialog is open.
NoTargeting ==
  [useInvertedExclusion |-> FALSE, targetFolders |-> <<>>, previousSetting |-> FALSE,
   targetedModal |-> FALSE, vaultModal |-> NoVaultModal, vaultRun |-> NoVaultRun]
NoVault ==
  [disk |-> [file \in VaultNotes |-> <<>>], pc |-> "idle", files |-> <<>>,
   lines |-> <<>>, line |-> 0, modified |-> FALSE, totalArchived |-> 0,
   reported |-> NotReported, persisted |-> 0, edited |-> {}]
NoCacheOp ==
  [cache |-> "none", op |-> "none", url |-> "", hit |-> FALSE, value |-> "", at |-> 0,
   before |-> <<>>, touchBefore |-> <<>>]
NoLookup ==
  [site |-> WAYBACK, url |-> "", limit |-> DefaultMaxSnapshots, json |-> <<>>,
   provided |-> <<>>]

\* The call variables between two calls.
CallAtRest ==
  /\ pc' = "idle"
  /\ originalUrl' = ""
  /\ retryCount' = 0
  /\ rlService' = WAYBACK
  /\ wakeAt' = 0
  /\ result' = NotFoundResult
  /\ caller' = "cursor"
  /\ cacheHit' = FALSE
  /\ attempts' = 0
  /\ httpCount' = 0
  /\ lastErrType' = "none"
  /\ lastFailure' = "none"
  /\ failSite' = ""
  /\ slept' = 0

Init ==
  /\ now = StartTime
  /\ ticks = 0
  /\ archiveSite \in ARCHIVE_SITES
  /\ lastRequestTime = [s \in Services |-> Never]
  /\ archiveCache = <<>>
  /\ pc = "idle"
  /\ originalUrl = ""
  /\ retryCount = 0
  /\ rlService = WAYBACK
  /\ wakeAt = 0
  /\ result = NotFoundResult
  /\ caller = "cursor"
  /\ cacheHit = FALSE
  /\ attempts = 0
  /\ httpCount = 0
  /\ lastErrType = "none"
  /\ lastFailure = "none"
  /\ failSite = ""
  /\ slept = 0
  /\ calls = 0
  /\ prev = NoPrev
  /\ batchKind = "none"
  /\ batchPc = "none"
  /\ files = <<>>
  /\ batchWakeAt = 0
  /\ runRateLimited = FALSE
  /\ rlPc = [c \in Callers |-> "idle"]
  /\ rlSvc = [c \in Callers |-> WAYBACK]
  /\ rlStartedAt = [c \in Callers |-> 0]
  /\ rlWakeAt = [c \in Callers |-> 0]
  /\ rlCalls = 0
  /\ retPrev = [s \in Services |-> Never]
  /\ retLast = [s \in Services |-> Never]
  /\ maxSnapshots = DefaultMaxSnapshots
  /\ lookup = NoLookup
  /\ resolved = NotFoundResult
  /\ titleCache = <<>>
  /\ cacheOp = NoCacheOp
  /\ touchOrder = <<>>
  /\ cacheOps = 0
  /\ caught = ErrorOf(NoStatus, {}, {})
  /\ classified = "none"
  /\ targeting = NoTargeting
  /\ vault = NoVault
  /\ modal = NoModal
  /\ modalCalls = <<>>

\* -------------------------------------------------- getExistingArchive
\* Mutant: the negative result is returned without being stored.
FallthroughUncached(cache, url, t) ==
  /\ pc' = "done"
  /\ result' = NotFoundResult
  /\ archiveCache' = cache

\* Lines 1972-1978: the negative result, stored in the cache.
Fallthrough(cache, url, t) ==
  /\ pc' = "done"
  /\ result' = NotFoundResult
  /\ archiveCache' = CacheSet(cache, url, NotFoundResult, t)

\* Lines 1861-1877 and 1927-1950: the sorted list, stored in the cache; an
\* empty list falls through.
Success(cache, url, site, snapshots, t) ==
  IF snapshots # <<>>
    THEN LET found == FoundResult(SortSnapshots(site, snapshots))
         IN /\ pc' = "done"
            /\ result' = found
            /\ archiveCache' = CacheSet(cache, url, found, t)
    ELSE Fallthrough(cache, url, t)

\* Lines 1827-1844 and 1915-1922, 3397-3448: after the rate-limit wait, the
\* provider of the configured service is entered, up to its first request.
\* att and http are the attempts and requests of the call so far.
Dispatch(cache, url, t, att, http) ==
  /\ attempts' = att + 1
  /\ IF archiveSite = WAYBACK
       THEN /\ pc' = "request"
            /\ httpCount' = http + 1
            /\ UNCHANGED result
            /\ archiveCache' = cache
     ELSE IF IsYouTube(url) /\ ~HasVideoId(url)
       THEN /\ Fallthrough(cache, url, t)
            /\ httpCount' = http
     ELSE /\ pc' = IF IsYouTube(url) THEN "ghostDirect" ELSE "ghostSearch"
          /\ httpCount' = http + 1
          /\ UNCHANGED result
          /\ archiveCache' = cache

\* Lines 1818-1819 and 115-127: waitIfNeeded; without a sleep it sets
\* lastRequestTime and the provider is entered in the same step.
EnterAttempt(cache, url, t, att, http) ==
  LET w == WaitIfNeededStart(archiveSite, lastRequestTime[archiveSite], t)
  IN /\ rlService' = archiveSite
     /\ lastRequestTime' = [lastRequestTime EXCEPT ![archiveSite] = w.lastRequest]
     /\ IF w.waitTime > 0
          THEN /\ pc' = "rlwait"
               /\ wakeAt' = t + w.waitTime
               /\ archiveCache' = cache
               /\ attempts' = att
               /\ httpCount' = http
               /\ UNCHANGED result
          ELSE /\ UNCHANGED wakeAt
               /\ Dispatch(cache, url, t, att, http)

\* Lines 1801-1819: a call with retryCount = 0.
Call(url, who) ==
  /\ pc = "idle"
  /\ calls < MaxCalls
  /\ LET got == CacheGet(archiveCache, url, now)
     IN /\ originalUrl' = url
        /\ caller' = who
        /\ retryCount' = 0
        /\ calls' = calls + 1
        /\ cacheHit' = got.hit
        /\ lastErrType' = "none"
        /\ lastFailure' = "none"
        /\ failSite' = ""
        /\ slept' = 0
        /\ IF got.hit
             THEN /\ pc' = "done"
                  /\ result' = got.result
                  /\ archiveCache' = got.cache
                  /\ attempts' = 0
                  /\ httpCount' = 0
                  /\ UNCHANGED <<rlService, wakeAt, lastRequestTime>>
             ELSE EnterAttempt(got.cache, url, now, 0, 0)
  /\ UNCHANGED <<now, ticks, archiveSite, prev>>

\* The timer of waitIfNeeded fires (it may fire late); lastRequestTime is
\* set and the provider is entered.
RLWake ==
  /\ pc = "rlwait"
  /\ now' = IF now < wakeAt THEN wakeAt ELSE now
  /\ lastRequestTime' = [lastRequestTime EXCEPT ![rlService] = now']
  /\ Dispatch(archiveCache, originalUrl, now', attempts, httpCount)
  /\ UNCHANGED <<ticks, archiveSite, originalUrl, retryCount, rlService, wakeAt, caller,
                 cacheHit, lastErrType, lastFailure, failSite, slept, calls, prev, batchVars>>
  /\ UNCHANGED sideVars

\* The kind of a transport failure: the kind of the error requestUrl raises
\* for it when it is left to throw.
FailureKind(reply) ==
  IF IsTransportFailure(reply)
    THEN classifyArchiveError(WaybackRequest(reply).err)
    ELSE "none"

\* Lines 1841-1914: the CDX answer arrives, or requestUrl throws.
WaybackReply(reply) ==
  /\ pc = "request"
  /\ lastFailure' = FailureKind(reply)
  /\ failSite' = WAYBACK
  /\ LET res == WaybackRequest(reply)
     IN IF ~res.thrown
          THEN /\ Success(archiveCache, originalUrl, WAYBACK,
                          WaybackSnapshots(originalUrl, res.rows), now)
               /\ lastErrType' = "none"
               /\ UNCHANGED <<retryCount, wakeAt, slept>>
          ELSE LET type == classifyArchiveError(res.err)
                   todo == AfterError(WAYBACK, type, retryCount)
               IN /\ lastErrType' = type
                  /\ CASE type = TypeErrorRaised ->
                            /\ pc' = "thrown"
                            /\ UNCHANGED <<archiveCache, retryCount, wakeAt, slept, result>>
                       [] todo = "rateLimited" ->
                            /\ pc' = "done"
                            /\ result' = RateLimitedResult
                            /\ UNCHANGED <<archiveCache, retryCount, wakeAt, slept>>
                       [] todo = "retry" ->
                            /\ pc' = "backoff"
                            /\ wakeAt' = now + BackoffDelay(retryCount)
                            /\ slept' = slept + 1
                            /\ UNCHANGED <<archiveCache, retryCount, result>>
                       [] OTHER ->
                            /\ Fallthrough(archiveCache, originalUrl, now)
                            /\ UNCHANGED <<retryCount, wakeAt, slept>>
  /\ UNCHANGED <<now, ticks, archiveSite, lastRequestTime, originalUrl, rlService, caller,
                 cacheHit, attempts, httpCount, calls, prev, batchVars>>
  /\ UNCHANGED sideVars

\* Lines 1905-1912 and 1818-1819: the backoff timer fires and the call
\* recurses with retryCount + 1, which skips the cache.
BackoffWake ==
  /\ pc = "backoff"
  /\ now' = IF now < wakeAt THEN wakeAt ELSE now
  /\ retryCount' = retryCount + 1
  /\ EnterAttempt(archiveCache, originalUrl, now', attempts, httpCount)
  /\ UNCHANGED <<ticks, archiveSite, originalUrl, caller,
                 cacheHit, lastErrType, lastFailure, failSite, slept, calls, prev, batchVars>>
  /\ UNCHANGED sideVars

\* Lines 3412-3416 and 3539-3615: the answer to the direct probe.  A
\* snapshot is returned at once; otherwise the search request is sent.
GhostDirectReply(reply) ==
  /\ pc = "ghostDirect"
  /\ lastFailure' = FailureKind(reply)
  /\ failSite' = GHOST
  /\ LET directResult == GhostDirectSnapshots(originalUrl, reply)
     IN IF directResult # <<>>
          THEN /\ Success(archiveCache, originalUrl, GHOST, directResult, now)
               /\ UNCHANGED httpCount
          ELSE /\ pc' = "ghostSearch"
               /\ httpCount' = httpCount + 1
               /\ UNCHANGED <<archiveCache, result>>
  /\ UNCHANGED <<now, ticks, archiveSite, lastRequestTime, originalUrl, retryCount,
                 rlService, wakeAt, caller, cacheHit, attempts, lastErrType,
                 slept, calls, prev, batchVars>>
  /\ UNCHANGED sideVars

\* Lines 3443-3529 and 1922-1953: the answer to the search request.
GhostSearchReply(reply) ==
  /\ pc = "ghostSearch"
  /\ lastFailure' = FailureKind(reply)
  /\ failSite' = GHOST
  /\ Success(archiveCache, originalUrl, GHOST,
             GhostSearchSnapshots(originalUrl, reply), now)
  /\ UNCHANGED <<now, ticks, archiveSite, lastRequestTime, originalUrl, retryCount,
                 rlService, wakeAt, caller, cacheHit, attempts, httpCount,
                 lastErrType, slept, calls, prev, batchVars>>
  /\ UNCHANGED sideVars

\* History: what is remembered of a call when it ends: its argument and
\* result (none was set when it ended with an exception, errType
\* TypeErrorRaised), the kind of the error it ended on, whether the cache answered it,
\* the time, the service configured, the timestamp of the cache entry that holds its result for its
\* URL (Never when there is none) and the limiter's state.
Returned ==
  [url |-> originalUrl, result |-> result, errType |-> lastErrType, hit |-> cacheHit,
   at |-> now,
   storedAt |-> IF originalUrl \in DOMAIN archiveCache
                   /\ archiveCache[originalUrl].result = result
                  THEN archiveCache[originalUrl].timestamp
                  ELSE Never,
   lastRequestTime |-> lastRequestTime, site |-> archiveSite]

\* Lines 551-553: archiveLinkAtCursor looks its link up and gets the result.
CursorCall(url) ==
  /\ Call(url, "cursor")
  /\ UNCHANGED batchVars
  /\ UNCHANGED sideVars

CursorReturn ==
  /\ pc = "done"
  /\ caller = "cursor"
  /\ CallAtRest
  /\ prev' = Returned
  /\ UNCHANGED <<now, ticks, archiveSite, lastRequestTime, archiveCache, calls,
                 batchVars>>
  /\ UNCHANGED sideVars

\* Lines 591-596: the exception of the lookup ends the command.
CursorCatch ==
  /\ pc = "thrown"
  /\ caller = "cursor"
  /\ CallAtRest
  /\ prev' = Returned
  /\ UNCHANGED <<now, ticks, archiveSite, lastRequestTime, archiveCache, calls,
                 batchVars>>
  /\ UNCHANGED sideVars

\* ---------------------------------------------------------------- batches
\* The link counts a file may hold, and the files a vault batch may walk.
LinkCounts == 1..MaxLinks
RECURSIVE LinksIn(_)
LinksIn(fs) == IF fs = <<>> THEN 0 ELSE Head(fs) + LinksIn(Tail(fs))
\* A vault batch has at most one link more than there are lookups to make.
FileLists ==
  {fs \in SeqsUpTo(LinkCounts, MaxFiles) \ {<<>>} : LinksIn(fs) <= MaxCalls + 1}

\* Lines 1158-1188: archiveAllLinksInNote starts on a note of n links.
StartNoteBatch(n) ==
  /\ pc = "idle"
  /\ batchKind = "none"
  /\ calls < MaxCalls
  /\ batchKind' = "note"
  /\ batchPc' = "loop"
  /\ files' = <<n>>
  /\ runRateLimited' = FALSE
  /\ UNCHANGED <<now, ticks, archiveSite, lastRequestTime, archiveCache, callVars,
                 histVars, batchWakeAt>>
  /\ UNCHANGED sideVars

\* Lines 1512-1553: archiveAllLinksInVault starts on the files to process.
StartVaultBatch(fs) ==
  /\ pc = "idle"
  /\ batchKind = "none"
  /\ calls < MaxCalls
  /\ batchKind' = "vault"
  /\ batchPc' = "loop"
  /\ files' = fs
  /\ runRateLimited' = FALSE
  /\ UNCHANGED <<now, ticks, archiveSite, lastRequestTime, archiveCache, callVars,
                 histVars, batchWakeAt>>
  /\ UNCHANGED sideVars

\* Lines 1247 and 1602: the loop looks the next link of the file up.
BatchCall(url) ==
  /\ batchPc = "loop"
  /\ Head(files) > 0
  /\ Call(url, batchKind)
  /\ batchPc' = "calling"
  /\ files' = [files EXCEPT ![1] = @ - 1]
  /\ UNCHANGED <<batchKind, batchWakeAt, runRateLimited>>
  /\ UNCHANGED sideVars

\* Mutant: the loop goes on after a rate-limited result.
BatchNeverStops(res) == FALSE

\* Lines 1250-1263 and 1605-1619, 1719-1744: a rate-limited result ends
\* the loop of the note, and the whole vault batch.
BatchStops(res) == res.rateLimited

\* Lines 1249-1285 and 1604-1718: the loop gets the result of its lookup.
BatchReturn ==
  /\ pc = "done"
  /\ caller \in {"note", "vault"}
  /\ CallAtRest
  /\ prev' = Returned
  /\ runRateLimited' = (runRateLimited \/ result.rateLimited)
  /\ IF BatchStops(result)
       THEN /\ batchKind' = "none"
            /\ batchPc' = "none"
            /\ UNCHANGED batchWakeAt
     ELSE IF batchKind = "note" /\ Head(files) > 0
       THEN /\ batchPc' = "delay"
            /\ batchWakeAt' = now + NoteLinkDelay
            /\ UNCHANGED batchKind
     ELSE /\ batchPc' = "loop"
          /\ UNCHANGED <<batchKind, batchWakeAt>>
  /\ UNCHANGED <<now, ticks, archiveSite, lastRequestTime, archiveCache, calls, files>>
  /\ UNCHANGED sideVars

\* Lines 1286-1318 and 1719-1755: the exception of the lookup is counted
\* as an error of the link (its message names no rate limit) and the loop
\* goes on with the next link, without the delay.
BatchCatch ==
  /\ pc = "thrown"
  /\ caller \in {"note", "vault"}
  /\ CallAtRest
  /\ prev' = Returned
  /\ batchPc' = "loop"
  /\ UNCHANGED <<now, ticks, archiveSite, lastRequestTime, archiveCache, calls,
                 batchKind, files, batchWakeAt, runRateLimited>>
  /\ UNCHANGED sideVars

\* Lines 1282-1285: the timer between two links of a note fires.
NoteDelayDone ==
  /\ batchPc = "delay"
  /\ now' = IF now < batchWakeAt THEN batchWakeAt ELSE now
  /\ batchPc' = "loop"
  /\ UNCHANGED <<ticks, archiveSite, lastRequestTime, archiveCache, callVars, histVars,
                 batchKind, files, batchWakeAt, runRateLimited>>
  /\ UNCHANGED sideVars

\* Lines 1320-1345 and 1757-1798: the links of a file are used up; the
\* batch goes on to the next file, and ends after the last one.
BatchNextFile ==
  /\ batchPc = "loop"
  /\ Head(files) = 0
  /\ files' = Tail(files)
  /\ IF Tail(files) = <<>>
       THEN batchKind' = "none" /\ batchPc' = "none"
       ELSE UNCHANGED <<batchKind, batchPc>>
  /\ UNCHANGED <<now, ticks, archiveSite, lastRequestTime, archiveCache, callVars,
                 histVars, batchWakeAt, runRateLimited>>
  /\ UNCHANGED sideVars

\* ------------------------------------------------------------ environment
\* Time passes between two calls, by the shortest delay of the program or by
\* the cache's ttl (before the first call nothing holds a timestamp yet, and
\* after the last one nothing reads the clock).
\* Within a call the clock is advanced by the call's own timers.
TickSteps == {DefaultDelay, ArchiveTtl}
Tick(d) ==
  /\ ticks < MaxTicks
  /\ pc = "idle"
  /\ calls > 0
  /\ calls < MaxCalls
  /\ ticks' = ticks + 1
  /\ now' = now + d
  /\ UNCHANGED <<archiveSite, lastRequestTime, archiveCache, callVars, histVars,
                 batchVars>>
  /\ UNCHANGED sideVars

\* Lines 3690-3699: the user picks another archive site in the settings,
\* between two calls or while a call sleeps (the places whose continuation
\* reads the setting).
SetArchiveSite(value) ==
  /\ value # archiveSite
  /\ pc \in {"idle", "rlwait", "backoff"}
  /\ pc = "idle" => calls < MaxCalls
  /\ ticks < MaxTicks
  /\ ticks' = ticks + 1
  /\ archiveSite' = value
  /\ UNCHANGED <<now, lastRequestTime, archiveCache, callVars, histVars, batchVars>>
  /\ UNCHANGED sideVars

\* The steps of a call in progress, whoever made it.
ResolverStep ==
  \/ RLWake
  \/ \E reply \in Replies : WaybackReply(reply)
  \/ BackoffWake
  \/ \E reply \in Replies : GhostDirectReply(reply)
  \/ \E reply \in Replies : GhostSearchReply(reply)

\* Lookups from the cursor command, one at a time.
Next ==
  \/ \E url \in Urls : CursorCall(url)
  \/ CursorReturn
  \/ CursorCatch
  \/ ResolverStep
  \/ \E d \in TickSteps : Tick(d)
  \/ \E value \in ARCHIVE_SITES : SetArchiveSite(value)

Spec == Init /\ [][Next]_vars

\* Lookups from the batch commands, one at a time.
NextBatch ==
  \/ \E n \in LinkCounts : StartNoteBatch(n)
  \/ \E fs \in FileLists : StartVaultBatch(fs)
  \/ \E url \in Urls : BatchCall(url)
  \/ BatchReturn
  \/ BatchCatch
  \/ NoteDelayDone
  \/ BatchNextFile
  \/ ResolverStep

SpecBatch == Init /\ [][NextBatch]_vars

\* ------------------------------------------------ the RateLimiter alone
\* waitIfNeeded called by tasks that share the limiter.  The clock moves in
\* steps between one millisecond and the longest delay, also while a
\* caller sleeps: a timer may fire late.
mainVars == <<archiveSite, archiveCache, callVars, histVars, batchVars>>

RLReturn(serviceName, t) ==
  /\ retPrev' = [retPrev EXCEPT ![serviceName] = retLast[serviceName]]
  /\ retLast' = [retLast EXCEPT ![serviceName] = t]

\* Lines 115-124: waitIfNeeded is called; it returns at once or sleeps.
RLStart(c, serviceName) ==
  /\ rlPc[c] = "idle"
  /\ rlCalls < MaxRLCalls
  /\ rlCalls' = rlCalls + 1
  /\ LET w == WaitIfNeededStart(serviceName, lastRequestTime[serviceName], now)
     IN /\ lastRequestTime' = [lastRequestTime EXCEPT ![serviceName] = w.lastRequest]
        /\ rlSvc' = [rlSvc EXCEPT ![c] = serviceName]
        /\ rlStartedAt' = [rlStartedAt EXCEPT ![c] = now]
        /\ IF w.waitTime > 0
             THEN /\ rlPc' = [rlPc EXCEPT ![c] = "sleeping"]
                  /\ rlWakeAt' = [rlWakeAt EXCEPT ![c] = now + w.waitTime]
                  /\ UNCHANGED <<retPrev, retLast>>
             ELSE /\ RLReturn(serviceName, now)
                  /\ UNCHANGED <<rlPc, rlWakeAt>>
  /\ UNCHANGED <<now, ticks, mainVars, lookupVars, cacheVars, errVars, uiVars>>

\* The same, called only when no other call is in progress.
RLStartAlone(c, serviceName) ==
  /\ \A other \in Callers : rlPc[other] = "idle"
  /\ RLStart(c, serviceName)

\* Lines 123-127: the timer fires, lastRequestTime is set and the call
\* returns.
RLTimer(c) ==
  /\ rlPc[c] = "sleeping"
  /\ now >= rlWakeAt[c]
  /\ lastRequestTime' = [lastRequestTime EXCEPT ![rlSvc[c]] = now]
  /\ RLReturn(rlSvc[c], now)
  /\ rlPc' = [rlPc EXCEPT ![c] = "idle"]
  /\ UNCHANGED <<now, ticks, mainVars, lookupVars, cacheVars, errVars, uiVars, rlSvc,
                 rlStartedAt, rlWakeAt, rlCalls>>

RLTickSteps == {1, 999, WaybackDelay, GhostDelay}
RLTick(d) ==
  /\ ticks < MaxRLTicks
  /\ ticks' = ticks + 1
  /\ now' = now + d
  /\ UNCHANGED <<lastRequestTime, mainVars, sideVars>>

InitRL == Init /\ archiveSite = WAYBACK

NextRLSeq ==
  \/ \E c \in Callers, serviceName \in Services : RLStartAlone(c, serviceName)
  \/ \E c \in Callers : RLTimer(c)
  \/ \E d \in RLTickSteps : RLTick(d)

SpecRLSeq == InitRL /\ [][NextRLSeq]_vars

NextRLConc ==
  \/ \E c \in Callers, serviceName \in Services : RLStart(c, serviceName)
  \/ \E c \in Callers : RLTimer(c)
  \/ \E d \in RLTickSteps : RLTick(d)

SpecRLConc == InitRL /\ [][NextRLConc]_vars

\* ------------------------------------------- the result of one lookup
\* What getExistingArchive makes of the candidates of its provider, for every
\* listing the service can answer with; the cache, the limiter and the
\* errors are left to the specifications above.
exceptLookup ==
  <<now, ticks, archiveSite, lastRequestTime, archiveCache, callVars, histVars, batchVars,
    rlVars, cacheVars, errVars, uiVars>>

\* Lines 1861-1877, 1927-1950 and 1972-1978: the result for a list of
\* candidates.
ResolveResult(site, snapshots) ==
  IF snapshots # <<>> THEN FoundResult(SortSnapshots(site, snapshots)) ELSE NotFoundResult

\* The rows of a CDX answer: the timestamps of the snapshots the service
\* holds, of which it sends the first `limit` (line 1838 asks for them).
CdxRowLists ==
  {<<>>} \cup {<<a>> : a \in Stamps} \cup {<<a, b>> : a \in Stamps, b \in Stamps}
CdxAnswer(rows, limit) ==
  IF Len(rows) > limit THEN SubSeq(rows, 1, limit) ELSE rows

\* A row of res.json: the header row (its second cell is the column name,
\* 0 here), a data row with its timestamp in the second cell, a row of one
\* cell, or null.
CdxHeader == [kind |-> "header", timestamp |-> 0]
CdxDataRow(timestamp) == [kind |-> "data", timestamp |-> timestamp]
CdxShortRow == [kind |-> "short", timestamp |-> 0]
CdxNullRow == [kind |-> "null", timestamp |-> 0]
\* row && row.length >= 2
CdxRowHasTimestamp(row) == row.kind \in {"header", "data"}
\* The data rows of an answer: well formed, or with a row that is not.
CdxDataRowLists ==
  {[i \in 1..Len(rows) |-> CdxDataRow(rows[i])] : rows \in CdxRowLists}
    \cup {<<CdxShortRow, CdxDataRow(1)>>, <<CdxDataRow(2), CdxNullRow>>}
\* The body of the answer: [] when the service holds nothing, else the
\* header row and the data rows.
CdxJson(dataRows) == IF dataRows = <<>> THEN <<>> ELSE <<CdxHeader>> \o dataRows

RECURSIVE CdxSnapshotsFrom(_, _, _)
CdxSnapshotsFrom(url, json, i) ==
  IF i > Len(json) THEN <<>>
  ELSE LET row == json[i]
           rest == CdxSnapshotsFrom(url, json, i + 1)
       IN IF CdxRowHasTimestamp(row)
            THEN <<[url |-> WaybackUrl(row.timestamp, url),
                    timestamp |-> row.timestamp]>> \o rest
            ELSE rest

\* Mutant: the loop starts at the header row.
CdxSnapshotsWithHeader(url, json) ==
  IF Len(json) > 1 THEN CdxSnapshotsFrom(url, json, 1) ELSE <<>>

\* Lines 1846-1859: res.json.length > 1, and the loop from the second row.
CdxSnapshots(url, json) ==
  IF Len(json) > 1 THEN CdxSnapshotsFrom(url, json, 2) ELSE <<>>

\* Lines 1837-1877: a lookup at the Wayback Machine that gets its answer.
LookupWayback(url, dataRows) ==
  LET limit == IF maxSnapshots = 0 THEN DefaultMaxSnapshots ELSE maxSnapshots
      json == CdxJson(CdxAnswer(dataRows, limit))
      provided == CdxSnapshots(url, json)
  IN /\ lookup' = [site |-> WAYBACK, url |-> url, limit |-> maxSnapshots, json |-> json,
                   provided |-> provided]
     /\ resolved' = ResolveResult(WAYBACK, provided)
     /\ UNCHANGED <<maxSnapshots, exceptLookup>>

\* Lines 1922-1950 and 3424-3525: a lookup at GhostArchive that gets a
\* search listing (for a video: after the direct probe found nothing).
LookupGhostSearch(url, listing) ==
  LET provided == GhostListingSnapshots(url, listing)
  IN /\ ~(IsYouTube(url) /\ ~HasVideoId(url))
     /\ lookup' = [site |-> GHOST, url |-> url, limit |-> maxSnapshots, json |-> <<>>,
                   provided |-> provided]
     /\ resolved' = ResolveResult(GHOST, provided)
     /\ UNCHANGED <<maxSnapshots, exceptLookup>>

\* Lines 1922-1950 and 3412-3415: a lookup at GhostArchive for a video
\* whose direct probe finds the archive page.
LookupGhostDirect(url, stamp) ==
  LET provided == GhostDirectSnapshots(url, [kind |-> "ok", rows |-> stamp])
  IN /\ HasVideoId(url)
     /\ lookup' = [site |-> GHOST, url |-> url, limit |-> maxSnapshots, json |-> <<>>,
                   provided |-> provided]
     /\ resolved' = ResolveResult(GHOST, provided)
     /\ UNCHANGED <<maxSnapshots, exceptLookup>>

\* Lines 3836-3843: the settings tab stores a number from 1 to 300.
MaxSnapshotsChoices == {LeastMaxSnapshots, DefaultMaxSnapshots, MostMaxSnapshots}
SetMaxSnapshots(numValue) ==
  /\ numValue >= LeastMaxSnapshots
  /\ numValue <= MostMaxSnapshots
  /\ numValue # maxSnapshots
  /\ maxSnapshots' = numValue
  /\ UNCHANGED <<lookup, resolved, exceptLookup>>

NextLookup ==
  \/ \E url \in Urls, dataRows \in CdxDataRowLists : LookupWayback(url, dataRows)
  \/ \E url \in Urls, listing \in GhostListings : LookupGhostSearch(url, listing)
  \/ \E url \in Urls, stamp \in {<<>>} \cup {<<a>> : a \in Stamps} : LookupGhostDirect(url, stamp)
  \/ \E numValue \in MaxSnapshotsChoices : SetMaxSnapshots(numValue)

SpecLookup == Init /\ [][NextLookup]_vars

\* ------------------------------------------------ the caches on their own
\* The operations of ArchiveCache and TitleCache in any order, with the clock
\* moving between them by a millisecond or by one of the ttls.
exceptCaches ==
  <<archiveSite, lastRequestTime, callVars, histVars, batchVars, rlVars, lookupVars,
    errVars, uiVars>>

\* One more operation than fills the title cache and reads it once.
MaxCacheOps == TitleMaxSize + 2
\* One URL more than the title cache holds.
TitleUrls == 1..(TitleMaxSize + 1)
Titles == {"title"}
\* The original URLs the archive cache is asked about: a URL is its host, the
\* segments of its path, whether the path ends in a slash, and its query
\* string.  The first two differ in the case of the host and in the slash.
ArchiveUrls ==
  {[host |-> "Example.com", path |-> <<"a">>, slash |-> TRUE, search |-> ""],
   [host |-> "example.com", path |-> <<"a">>, slash |-> FALSE, search |-> ""],
   [host |-> "example.com", path |-> <<"a">>, slash |-> FALSE, search |-> "?q=1"]}
\* String.prototype.toLowerCase on the hosts above.
ToLowerCase(host) == IF host = "Example.com" THEN "example.com" ELSE host
\* Lines 2055-2080: the lowercased host, the path without a trailing slash
\* (the path "/" is kept), and the query string.
normalizeUrl(url) ==
  [host |-> ToLowerCase(url.host), path |-> url.path,
   slash |-> url.slash /\ url.path = <<>>, search |-> url.search]
ArchiveResults(url) == {NotFoundResult, FoundResult(WaybackSnapshots(url, <<1>>))}

\* The two caches share nothing, so a run uses one of them.
CacheOpDone(cache) ==
  /\ cacheOps < MaxCacheOps
  /\ cacheOp.cache \in {"none", cache}
  /\ cacheOps' = cacheOps + 1
  /\ UNCHANGED <<now, ticks, exceptCaches>>

\* Without the keys that are gone, and with url last when it was touched.
Touched(order, keys, url, touch) ==
  LET kept == SelectSeq(order, LAMBDA k : k \in keys /\ ~(touch /\ k = url))
  IN IF touch THEN Append(kept, url) ELSE kept

\* Lines 167-183.
TitleCacheGet(url) ==
  LET got == TitleGet(titleCache, url, now)
  IN /\ CacheOpDone("title")
     /\ titleCache' = got.cache
     /\ cacheOp' = [cache |-> "title", op |-> "get", url |-> url, hit |-> got.hit,
                    value |-> got.title, at |-> now, before |-> titleCache,
                    touchBefore |-> touchOrder]
     /\ touchOrder' = Touched(touchOrder, TitleKeys(got.cache), url, got.hit)
     /\ UNCHANGED archiveCache

\* Lines 185-198.  The key is touched when the set inserts it: when the Map
\* did not hold it, or had just given it up to make room.
TitleCacheSet(url, title) ==
  LET after == TitleSet(titleCache, url, title, now)
      inserted == \/ url \notin TitleKeys(titleCache)
                  \/ Len(titleCache) >= TitleMaxSize /\ titleCache[1].url = url
  IN /\ CacheOpDone("title")
     /\ titleCache' = after
     /\ cacheOp' = [cache |-> "title", op |-> "set", url |-> url, hit |-> FALSE,
                    value |-> title, at |-> now, before |-> titleCache,
                    touchBefore |-> touchOrder]
     /\ touchOrder' = Touched(touchOrder, TitleKeys(after), url, inserted)
     /\ UNCHANGED archiveCache

\* Lines 200-202.
TitleCacheClear ==
  /\ CacheOpDone("title")
  /\ titleCache # <<>>
  /\ titleCache' = TitleClear(titleCache)
  /\ cacheOp' = [cache |-> "title", op |-> "clear", url |-> 0, hit |-> FALSE,
                 value |-> "", at |-> now, before |-> titleCache,
                 touchBefore |-> touchOrder]
  /\ touchOrder' = <<>>
  /\ UNCHANGED archiveCache

\* Lines 135-147.
ArchiveCacheGet(url) ==
  LET got == CacheGet(archiveCache, url, now)
  IN /\ CacheOpDone("archive")
     /\ archiveCache' = got.cache
     /\ cacheOp' = [cache |-> "archive", op |-> "get", url |-> url, hit |-> got.hit,
                    value |-> got.result, at |-> now, before |-> archiveCache,
                    touchBefore |-> <<>>]
     /\ UNCHANGED <<titleCache, touchOrder>>

\* Lines 149-154.
ArchiveCacheSet(url, res) ==
  /\ CacheOpDone("archive")
  /\ archiveCache' = CacheSet(archiveCache, url, res, now)
  /\ cacheOp' = [cache |-> "archive", op |-> "set", url |-> url, hit |-> FALSE,
                 value |-> res, at |-> now, before |-> archiveCache,
                 touchBefore |-> <<>>]
  /\ UNCHANGED <<titleCache, touchOrder>>

\* Lines 156-158.
ArchiveCacheClear ==
  /\ CacheOpDone("archive")
  /\ archiveCache # <<>>
  /\ archiveCache' = CacheClear(archiveCache)
  /\ cacheOp' = [cache |-> "archive", op |-> "clear", url |-> "", hit |-> FALSE,
                 value |-> "", at |-> now, before |-> archiveCache,
                 touchBefore |-> <<>>]
  /\ UNCHANGED <<titleCache, touchOrder>>

CacheTickSteps == {1, ArchiveTtl, TitleTtl}
CacheTick(d) ==
  /\ ticks < MaxCacheTicks
  /\ cacheOps > 0
  /\ ticks' = ticks + 1
  /\ now' = now + d
  /\ UNCHANGED <<archiveCache, cacheVars, exceptCaches>>

NextCaches ==
  \/ \E url \in TitleUrls : TitleCacheGet(url)
  \/ \E url \in TitleUrls, title \in Titles : TitleCacheSet(url, title)
  \/ TitleCacheClear
  \/ \E url \in ArchiveUrls : ArchiveCacheGet(url)
  \/ \E url \in ArchiveUrls : \E res \in ArchiveResults(url) : ArchiveCacheSet(url, res)
  \/ ArchiveCacheClear
  \/ \E d \in CacheTickSteps : CacheTick(d)

SpecCaches == Init /\ [][NextCaches]_vars

\* ------------------------------------------------ the classifier alone
\* classifyArchiveError on every value a catch block may hand it: err is
\* typed any.
ErrorValueStatuses == {NoStatus, 403, 404, 429, 500, 503, 504}
\* A message that contains "gateway timeout" contains "timeout".
ErrorMessages ==
  {{}, NonString, {"rate limit"}, {"too many requests"}, {"forbidden"},
   {"service unavailable"}, {"gateway timeout", "timeout"}, {"network"}, {"timeout"},
   {"econnrefused"}}
CaptchaMarkers == {"captcha", "CAPTCHA", "cloudflare", "challenge"}
ErrorTexts == {{}, NonString} \cup {{marker} : marker \in CaptchaMarkers}
ErrorValues ==
  {NullError}
    \cup {ErrorOf(status, msg, text) :
            status \in ErrorValueStatuses, msg \in ErrorMessages, text \in ErrorTexts}

ClassifyError(err) ==
  /\ caught' = err
  /\ classified' = classifyArchiveError(err)
  /\ UNCHANGED <<now, ticks, lastRequestTime, mainVars, rlVars, lookupVars, cacheVars,
                 uiVars>>

NextErrors == \E err \in ErrorValues : ClassifyError(err)

SpecErrors == Init /\ [][NextErrors]_vars

\* ------------------------------------- the targeted archiving command
\* The commands "Archive links in targeted files only" and "Archive all
\* links in vault" with their confirmation dialogs, and the settings they
\* read.  A handler runs with the promise continuations it leaves behind:
\* these run before the next event is handled.
exceptUi ==
  <<now, ticks, lastRequestTime, mainVars, rlVars, lookupVars, cacheVars, errVars,
    vaultVars, modalVars>>

\* A file is its folder and its name.
VaultFiles == {<<"notes", "a.md">>, <<"other", "b.md">>}
TargetFolderChoices == {<<>>, <<"notes">>}
InFolders(file, folders) == \E i \in 1..Len(folders) : file[1] = folders[i]

\* Lines 2483-2591 with no excluded folders or tags and no target tags (the
\* defaults, lines 62-67).
shouldExcludeFile(file, inverted, folders) ==
  inverted /\ Len(folders) > 0 /\ ~InFolders(file, folders)

\* Lines 3971-3973: the toggle "Enable targeted archiving".
SetInvertedExclusion(value) ==
  /\ ~targeting.targetedModal /\ ~targeting.vaultModal.open
  /\ value # targeting.useInvertedExclusion
  /\ targeting' = [targeting EXCEPT !.useInvertedExclusion = value]
  /\ UNCHANGED exceptUi

\* The text field "Target folders" of the settings tab.
SetTargetFolders(folders) ==
  /\ ~targeting.targetedModal /\ ~targeting.vaultModal.open
  /\ folders # targeting.targetFolders
  /\ targeting' = [targeting EXCEPT !.targetFolders = folders]
  /\ UNCHANGED exceptUi

\* Lines 2598-2626: archiveTargetedFiles.  Without targets the setting is
\* put back at once; otherwise the TargetedArchiveModal is opened.
ArchiveTargetedFiles ==
  /\ ~targeting.targetedModal
  /\ ~targeting.vaultModal.open
  /\ targeting' =
       IF Len(targeting.targetFolders) = 0
         THEN [targeting EXCEPT !.previousSetting = targeting.useInvertedExclusion]
         ELSE [targeting EXCEPT !.previousSetting = targeting.useInvertedExclusion,
                                !.useInvertedExclusion = TRUE,
                                !.targetedModal = TRUE]
  /\ UNCHANGED exceptUi

\* Lines 2618-2621: "Continue" calls the callback, which awaits
\* archiveAllLinksInVault and then puts the setting back.
\* archiveAllLinksInVault (1512-1513, 1797) opens the ArchiveVaultModal and
\* returns, so the setting is put back before the next event.
TargetedContinue ==
  /\ targeting.targetedModal
  /\ targeting' = [targeting EXCEPT !.targetedModal = FALSE,
                                    !.vaultModal = [open |-> TRUE, targeted |-> TRUE],
                                    !.useInvertedExclusion = targeting.previousSetting]
  /\ UNCHANGED exceptUi

\* Lines 3017-3022 and 2622-2625: "Cancel" puts the setting back.
TargetedCancel ==
  /\ targeting.targetedModal
  /\ targeting' = [targeting EXCEPT !.targetedModal = FALSE,
                                    !.useInvertedExclusion = targeting.previousSetting]
  /\ UNCHANGED exceptUi

\* Line 254 and 1512-1513: the command "Archive all links in vault".
ArchiveAllLinksInVault ==
  /\ ~targeting.targetedModal
  /\ ~targeting.vaultModal.open
  /\ targeting' = [targeting EXCEPT !.vaultModal = [open |-> TRUE, targeted |-> FALSE]]
  /\ UNCHANGED exceptUi

\* Lines 2966-2972 and 1513-1547: "Continue" starts the batch, which first
\* asks shouldExcludeFile about every markdown file.
VaultContinue ==
  /\ targeting.vaultModal.open
  /\ targeting' =
       [targeting EXCEPT
          !.vaultModal = NoVaultModal,
          !.vaultRun =
             [state |-> "running", targeted |-> targeting.vaultModal.targeted,
              inverted |-> targeting.useInvertedExclusion,
              folders |-> targeting.targetFolders,
              filesToProcess |->
                {file \in VaultFiles :
                   ~shouldExcludeFile(file, targeting.useInvertedExclusion,
                                      targeting.targetFolders)}]]
  /\ UNCHANGED exceptUi

\* Lines 2974-2978: "Cancel" closes the dialog.
VaultCancel ==
  /\ targeting.vaultModal.open
  /\ targeting' = [targeting EXCEPT !.vaultModal = NoVaultModal]
  /\ UNCHANGED exceptUi

\* Lines 1757-1797: the batch has walked its files and reports.
VaultFinish ==
  /\ targeting.vaultRun.state = "running"
  /\ targeting' = [targeting EXCEPT !.vaultRun.state = "finished"]
  /\ UNCHANGED exceptUi

NextTargeted ==
  \/ \E value \in BOOLEAN : SetInvertedExclusion(value)
  \/ \E folders \in TargetFolderChoices : SetTargetFolders(folders)
  \/ ArchiveTargetedFiles
  \/ TargetedContinue
  \/ TargetedCancel
  \/ ArchiveAllLinksInVault
  \/ VaultContinue
  \/ VaultCancel
  \/ VaultFinish

SpecTargeted == Init /\ [][NextTargeted]_vars

\* ------------------------------------------- the vault batch and its files
\* archiveAllLinksInVault on the files themselves.  A line is "text", "link"
\* (a link without an archive link), "archived" (a link that has one),
\* "replaced" (a link the batch has given one) or "user" (a line the user
\* has typed meanwhile).  The lookup of a link is any outcome
\* getExistingArchive can have.
exceptVault ==
  <<now, ticks, lastRequestTime, mainVars, rlVars, lookupVars, cacheVars, errVars,
    targetVars, modalVars>>

NoteContents == {<<"text">>, <<"link">>, <<"link", "link">>, <<"archived", "link">>}
LookupOutcomes == {"found", "none", "rateLimited", "thrown"}

\* Lines 1558-1599: the next line at or after i that holds a link to look
\* up (0 when there is none).
RECURSIVE NextLinkLine(_, _)
NextLinkLine(lines, i) ==
  IF i > Len(lines) THEN 0
  ELSE IF lines[i] = "link" THEN i
  ELSE NextLinkLine(lines, i + 1)

RECURSIVE CountLines(_, _)
CountLines(lines, kind) ==
  IF lines = <<>> THEN 0
  ELSE (IF Head(lines) = kind THEN 1 ELSE 0) + CountLines(Tail(lines), kind)

\* Lines 1513-1549: the batch is confirmed on a vault with these contents.
VaultBatchStart(contents) ==
  /\ vault.pc = "idle"
  /\ vault' = [vault EXCEPT !.disk = contents, !.pc = "read", !.files = VaultNoteOrder]
  /\ UNCHANGED exceptVault

\* Lines 1757-1796: the batch goes on to the next file; after the last
\* file the report is shown.
VaultAfterFile(v) ==
  IF Tail(v.files) = <<>>
    THEN [v EXCEPT !.files = <<>>, !.pc = "done", !.reported = Report(v.totalArchived)]
    ELSE [v EXCEPT !.files = Tail(v.files), !.pc = "read"]

\* Lines 1759-1761: the lines are written back when one was replaced.
VaultModify(v) ==
  IF v.modified
    THEN [v EXCEPT !.disk[Head(v.files)] = v.lines,
                   !.persisted = v.persisted + CountLines(v.lines, "replaced")]
    ELSE v

\* Lines 1551-1599: vault.read returns; the loop runs to the first lookup.
\* A file without a link to look up is finished at once.
VaultRead ==
  /\ vault.pc = "read"
  /\ LET lines == vault.disk[Head(vault.files)]
         i == NextLinkLine(lines, 1)
         v == [vault EXCEPT !.lines = lines, !.line = i, !.modified = FALSE]
     IN vault' = IF i # 0 THEN [v EXCEPT !.pc = "lookup"] ELSE VaultAfterFile(v)
  /\ UNCHANGED exceptVault

\* totalArchived after a replacement: lines 1685 and 1704 both count it.
CountReplacement(total) == total + 2

\* Lines 1602-1761: the lookup of the link returns.  A rate-limited result
\* is thrown and caught at 1719, where the report is shown and the function
\* returns; a found result replaces the line; the loop then runs to the next
\* lookup, or writes the file and goes on.
VaultLookupReturn(outcome) ==
  /\ vault.pc = "lookup"
  /\ vault' =
       IF outcome = "rateLimited"
         THEN [vault EXCEPT !.pc = "done", !.reported = Report(vault.totalArchived)]
       ELSE LET found == outcome = "found"
                lines == IF found THEN [vault.lines EXCEPT ![vault.line] = "replaced"]
                         ELSE vault.lines
                v == [vault EXCEPT
                        !.lines = lines,
                        !.modified = vault.modified \/ found,
                        !.totalArchived = IF found THEN CountReplacement(@) ELSE @,
                        !.line = NextLinkLine(lines, vault.line + 1)]
            IN IF v.line # 0 THEN v ELSE VaultAfterFile(VaultModify(v))
  /\ UNCHANGED exceptVault

\* The user types a line at the end of a note while the batch is suspended
\* at an awaited read or lookup.
UserEdit(file) ==
  /\ vault.pc \in {"read", "lookup"}
  /\ file \notin vault.edited
  /\ vault' = [vault EXCEPT !.disk[file] = Append(@, "user"),
                            !.edited = @ \cup {file}]
  /\ UNCHANGED exceptVault

NextVault ==
  \/ \E contents \in [VaultNotes -> NoteContents] : VaultBatchStart(contents)
  \/ VaultRead
  \/ \E outcome \in LookupOutcomes : VaultLookupReturn(outcome)
  \/ \E file \in VaultNotes : UserEdit(file)

SpecVault == Init /\ [][NextVault]_vars

\* ------------------------------------- the modals of archiveLinkAtCursor
\* archiveLinkAtCursor awaits the promise of showSnapshotModal (line 556)
\* or of showArchivePromptModal (line 576); the promise is resolved by the
\* modal's onSubmit.  A call is "awaiting" until its promise is resolved and
\* the rest of the function has run.  Obsidian closes a modal on Escape, on
\* a click outside it and on its close button as well: close() then runs
\* onClose.
exceptModals ==
  <<now, ticks, lastRequestTime, mainVars, rlVars, lookupVars, cacheVars, errVars,
    targetVars, vaultVars>>

MaxModalCalls == 2
SnapshotUrls == {"snap1", "snap2", "snap3"}
SnapshotChoices == {<<"snap1", "snap2">>, <<"snap1", "snap2", "snap3">>}
TypedTexts == {"", "notes", "https://archive"}
StartsWithHttp(text) == text = "https://archive"

\* new Promise((resolve) => new ...Modal(..., resolve, ...).open())
OpenModal(kind, step, snapshots) ==
  /\ modalCalls' = Append(modalCalls, [kind |-> kind, state |-> "awaiting", value |-> "null"])
  /\ modal' = [open |-> TRUE, kind |-> kind, call |-> Len(modalCalls) + 1, step |-> step,
               snapshots |-> snapshots, selectedUrl |-> "null", input |-> ""]

\* Lines 554-556 and 2425-2429: several snapshots were found.
ShowSnapshotModal(snapshots) ==
  /\ ~modal.open
  /\ Len(modalCalls) < MaxModalCalls
  /\ OpenModal("picker", "pick", snapshots)
  /\ UNCHANGED <<targetVars, vaultVars, exceptModals>>

\* Lines 574-576 and 599-603: no archive was found.
ShowArchivePromptModal ==
  /\ ~modal.open
  /\ Len(modalCalls) < MaxModalCalls
  /\ OpenModal("prompt", "ask", <<>>)
  /\ UNCHANGED <<targetVars, vaultVars, exceptModals>>

\* this.onSubmit(value); this.close(): the promise is resolved, the modal
\* closes and the call runs to its end (lines 557-568, 577-589).
SubmitAndClose(value) ==
  /\ modalCalls' = [modalCalls EXCEPT ![modal.call] =
                     [@ EXCEPT !.state = "completed", !.value = value]]
  /\ modal' = NoModal

\* Lines 2802-2823: Create Snapshot opens the browser and shows the input.
PromptCreateSnapshot ==
  /\ modal.open /\ modal.kind = "prompt" /\ modal.step = "ask"
  /\ modal' = [modal EXCEPT !.step = "input"]
  /\ UNCHANGED <<modalCalls, targetVars, vaultVars, exceptModals>>

\* The user types into the input of line 2840.
PromptType(text) ==
  /\ modal.open /\ modal.kind = "prompt" /\ modal.step = "input"
  /\ modal.input # text
  /\ modal' = [modal EXCEPT !.input = text]
  /\ UNCHANGED <<modalCalls, targetVars, vaultVars, exceptModals>>

\* Lines 2846-2857: Save submits a URL that starts with http; anything else
\* gets a notice and the modal stays.
PromptSave ==
  /\ modal.open /\ modal.kind = "prompt" /\ modal.step = "input"
  /\ IF StartsWithHttp(modal.input)
       THEN SubmitAndClose(modal.input)
       ELSE UNCHANGED <<modal, modalCalls>>
  /\ UNCHANGED <<targetVars, vaultVars, exceptModals>>

\* Lines 2825-2830, 2859-2864 and 2937-2942: Cancel.
ModalCancel ==
  /\ modal.open
  /\ SubmitAndClose("null")
  /\ UNCHANGED <<targetVars, vaultVars, exceptModals>>

\* Lines 2911-2919: a click on a snapshot of the list.
PickerSelect(url) ==
  /\ modal.open /\ modal.kind = "picker"
  /\ \E i \in 1..Len(modal.snapshots) : modal.snapshots[i] = url
  /\ modal.selectedUrl # url
  /\ modal' = [modal EXCEPT !.selectedUrl = url]
  /\ UNCHANGED <<modalCalls, targetVars, vaultVars, exceptModals>>

\* Lines 2925-2935: Insert Snapshot submits the selected URL; without a
\* selection there is a notice and the modal stays.
PickerInsert ==
  /\ modal.open /\ modal.kind = "picker"
  /\ IF modal.selectedUrl # "null"
       THEN SubmitAndClose(modal.selectedUrl)
       ELSE UNCHANGED <<modal, modalCalls>>
  /\ UNCHANGED <<targetVars, vaultVars, exceptModals>>

\* Escape, a click outside the modal or its close button: close() runs
\* onClose (lines 2869-2872, 2945-2947), which empties contentEl and does
\* not call onSubmit.
ModalDismiss ==
  /\ modal.open
  /\ modal' = NoModal
  /\ UNCHANGED <<modalCalls, targetVars, vaultVars, exceptModals>>

NextModals ==
  \/ \E snapshots \in SnapshotChoices : ShowSnapshotModal(snapshots)
  \/ ShowArchivePromptModal
  \/ PromptCreateSnapshot
  \/ \E text \in TypedTexts : PromptType(text)
  \/ PromptSave
  \/ ModalCancel
  \/ \E url \in SnapshotUrls : PickerSelect(url)
  \/ PickerInsert
  \/ ModalDismiss

SpecModals == Init /\ [][NextModals]_vars

\* The user does not leave an open modal on screen for ever, and a step
\* that can be taken is taken.
SpecModalsFair == SpecModals /\ WF_vars(NextModals)

\* ================================================================ claims
PrevSameUrl == pc # "idle" /\ prev.url = originalUrl

\* C1: a provider error classified RATE_LIMITED ends the call at once with
\* {found: false, rateLimited: true}: no attempt follows it, no entry for the
\* URL is in the cache, and the next call for the same URL is not answered
\* from the cache.
C1_RateLimitedReturnsUncached ==
  /\ lastErrType = RATE_LIMITED =>
       /\ pc = "done"
       /\ result = RateLimitedResult
       /\ originalUrl \notin DOMAIN archiveCache
  /\ PrevSameUrl /\ prev.errType = RATE_LIMITED => ~cacheHit

C1_Witness ==
  /\ pc = "done"
  /\ prev.url = originalUrl
  /\ prev.errType = RATE_LIMITED
  /\ prev.result = RateLimitedResult
  /\ attempts > 0

\* The call before this one got zero candidates from its provider.
PrevZeroCandidates ==
  /\ ~prev.hit
  /\ prev.errType = "none"
  /\ prev.result = NotFoundResult

\* C2: when the provider succeeds with zero candidates the call returns
\* found = false and stores it, and a call for the same URL that follows
\* within the ttl returns found = false without any HTTP request.
C2_NegativeResultIsCached ==
  /\ pc = "done" /\ ~cacheHit /\ lastErrType = "none" /\ ~result.foundArchive =>
       /\ result = NotFoundResult
       /\ originalUrl \in DOMAIN archiveCache
       /\ archiveCache[originalUrl] = [result |-> NotFoundResult, timestamp |-> now]
  /\ PrevSameUrl /\ PrevZeroCandidates /\ now - prev.at <= ArchiveTtl =>
       /\ pc = "done"
       /\ cacheHit
       /\ result = NotFoundResult
       /\ httpCount = 0

C2_Witness ==
  /\ pc = "done"
  /\ cacheHit
  /\ prev.url = originalUrl
  /\ PrevZeroCandidates
  /\ result = NotFoundResult

\* C3: when the call before stored its result for the same URL and this call
\* starts within the ttl of that entry, this call returns the identical
\* result, makes no rate-limit wait (lastRequestTime is as the call before
\* left it) and no HTTP request.
C3_CacheHitWithinTtl ==
  PrevSameUrl /\ prev.storedAt # Never /\ now - prev.storedAt <= ArchiveTtl =>
    /\ pc = "done"
    /\ cacheHit
    /\ result = prev.result
    /\ lastRequestTime = prev.lastRequestTime
    /\ attempts = 0
    /\ httpCount = 0

C3_Witness ==
  /\ pc = "done"
  /\ cacheHit
  /\ prev.url = originalUrl
  /\ prev.result.foundArchive
  /\ result = prev.result
  /\ now - prev.storedAt = ArchiveTtl

\* C4: for every configured service a transport failure of kind NETWORK_ERROR
\* or SERVICE_UNAVAILABLE is retried after a sleep while retryCount < 2, so a
\* call ends on such a failure only after three attempts and two sleeps.
C4_TransientFailureIsRetried ==
  pc = "done" /\ lastFailure \in {NETWORK_ERROR, SERVICE_UNAVAILABLE} =>
    /\ retryCount = MaxRetries
    /\ attempts = MaxRetries + 1
    /\ slept = MaxRetries

\* C5: a call that ends on an error of any kind but RATE_LIMITED returns
\* found = false and leaves no entry for its URL in the cache.
C5_ErrorResultIsUncached ==
  pc = "done" /\ lastErrType \in ArchiveErrorType \ {RATE_LIMITED} =>
    /\ result = NotFoundResult
    /\ originalUrl \notin DOMAIN archiveCache

\* C6: an error classified CAPTCHA_REQUIRED, IP_BLOCKED or UNKNOWN ends the
\* call with found = false: no sleep and no attempt follows it.
C6_PermanentErrorIsNotRetried ==
  lastErrType \in {CAPTCHA_REQUIRED, IP_BLOCKED, UNKNOWN} =>
    /\ pc = "done"
    /\ result = NotFoundResult

C6_Witness ==
  /\ pc = "done"
  /\ lastErrType = CAPTCHA_REQUIRED
  /\ retryCount = 1
  /\ result = NotFoundResult

\* C7: a transport failure of the provider's request reaches the resolver as
\* a classified error, for every service; a failure of kind RATE_LIMITED
\* (HTTP 429) gives rateLimited = true and no cache entry.
C7_TransportFailureIsRaised ==
  pc = "done" /\ lastFailure # "none" =>
    /\ lastErrType = lastFailure
    /\ lastFailure = RATE_LIMITED =>
         result.rateLimited /\ originalUrl \notin DOMAIN archiveCache

\* C8: once a lookup of a batch run has returned rateLimited = true, the run
\* is over: it makes no further lookup, whatever links and files are left.
C8_BatchStopsOnRateLimit ==
  runRateLimited => batchPc = "none" /\ pc = "idle"

C8_Witness ==
  /\ runRateLimited
  /\ batchPc = "none"
  /\ Len(files) = 2
  /\ files[1] > 0

\* The gap between the last two returns of waitIfNeeded for a service.
ReturnedTwice(serviceName) == retPrev[serviceName] # Never
ReturnGap(serviceName) == retLast[serviceName] - retPrev[serviceName]

\* C9: when every call of waitIfNeeded is made after the call before it has
\* returned, two consecutive calls for a service return at least its gap
\* apart: 1000 ms for web.archive.org, 2000 ms for ghostarchive.org, 1000 ms
\* for any other service.
C9_SequentialCallsKeepTheGap ==
  /\ ReturnedTwice(WAYBACK) => ReturnGap(WAYBACK) >= 1000
  /\ ReturnedTwice(GHOST) => ReturnGap(GHOST) >= 2000
  /\ ReturnedTwice("other") => ReturnGap("other") >= 1000

\* A second call for ghostarchive.org made 999 ms after the first returned:
\* it slept, and returned exactly one gap after the first.
C9_Witness ==
  /\ ReturnedTwice(GHOST)
  /\ ReturnGap(GHOST) = 2000
  /\ \E c \in Callers :
       /\ rlSvc[c] = GHOST
       /\ rlPc[c] = "idle"
       /\ rlStartedAt[c] = retPrev[GHOST] + 999

\* C10: the limiter does not queue its callers.  A call that sleeps leaves
\* lastRequestTime as it found it, so a call that starts meanwhile computes
\* its sleep from the same entry: no call sleeps longer than one gap, however
\* many are asleep, and two calls can return within one gap (C10_Witness).
C10_CallersAreNotSerialised ==
  \A c \in Callers :
    rlPc[c] = "sleeping" =>
      /\ rlWakeAt[c] - rlStartedAt[c] <= RateLimiterDelay(rlSvc[c])
      /\ \A other \in Callers :
           /\ rlPc[other] = "sleeping"
           /\ rlSvc[other] = rlSvc[c]
           /\ lastRequestTime[rlSvc[c]] + RateLimiterDelay(rlSvc[c]) = rlWakeAt[c]
           /\ rlStartedAt[other] >= rlStartedAt[c]
           => rlWakeAt[other] = rlWakeAt[c]

\* Two calls for ghostarchive.org that slept at the same time have returned
\* less than its gap of 2000 ms apart.
C10_Witness ==
  /\ ReturnedTwice(GHOST)
  /\ ReturnGap(GHOST) < 2000
  /\ \A c \in Callers : rlSvc[c] = GHOST /\ rlPc[c] = "idle" /\ rlWakeAt[c] > 0

\* What C11 asks of one result value.
BestUrlIsFirstSnapshot(res) ==
  IF res.foundArchive
    THEN /\ res.snapshots # <<>>
         /\ res.archivedUrl = res.snapshots[1].url
    ELSE res.archivedUrl = <<>>

\* C11: every result with found = true, returned by a call or held by the
\* cache, has a non-empty snapshots list and archivedUrl = snapshots[0].url;
\* every result with found = false has no archivedUrl.
C11_BestUrlIsFirstSnapshot ==
  /\ pc = "done" => BestUrlIsFirstSnapshot(result)
  /\ \A url \in DOMAIN archiveCache : BestUrlIsFirstSnapshot(archiveCache[url].result)

\* A call answered from the cache with a result of two snapshots, the call
\* before having fetched it.
C11_Witness ==
  /\ pc = "done"
  /\ cacheHit
  /\ result.foundArchive
  /\ Len(result.snapshots) = 2
  /\ result.snapshots[1].url # result.snapshots[2].url
  /\ result.archivedUrl = result.snapshots[1].url
  /\ prev.url = originalUrl
  /\ ~prev.hit

\* scoreSnapshotRelevance (lines 2352-2396): 30 for a valid timestamp, 20
\* more when it is of the last two years (the timestamp 2 here), 25 for a
\* URL of one short path segment; the other URL forms of the model score 0.
IsValidTimestamp(timestamp) == IsDate(timestamp)
scoreSnapshotRelevance(snapshot) ==
  (IF IsValidTimestamp(snapshot.timestamp)
     THEN 30 + (IF snapshot.timestamp = 2 THEN 20 ELSE 0)
     ELSE 0)
  + (IF Len(snapshot.url) = 2 THEN 25 ELSE 0)

\* a is not after b in the order C12 describes.
RelevanceOrdered(a, b) ==
  LET sa == scoreSnapshotRelevance(a)
      sb == scoreSnapshotRelevance(b)
  IN \/ sa > sb
     \/ /\ sa = sb
        /\ IsDate(b.timestamp) => IsDate(a.timestamp) /\ a.timestamp >= b.timestamp

\* C12: the snapshots of a result are in descending order of relevance
\* score, equal scores in descending order of timestamp, and a snapshot
\* whose timestamp is no date comes after those whose timestamp is one.
C12_SnapshotsSortedByScore ==
  \A i \in 1..Len(resolved.snapshots), j \in 1..Len(resolved.snapshots) :
    i < j => RelevanceOrdered(resolved.snapshots[i], resolved.snapshots[j])

\* C13: a result with found = true has at most maxSnapshots snapshots.
C13_AtMostMaxSnapshots ==
  resolved.foundArchive => Len(resolved.snapshots) <= lookup.limit

\* isValidArchiveUrl (lines 2170-2182): the recognized archive domains.
ArchiveDomains ==
  {"archive.ph", "archive.today", "archive.li", "archive.md", "archive.is", "archive.vn",
   WAYBACK, GHOST}
isValidArchiveUrl(url) == url[1] \in ArchiveDomains

\* C14: the URL of every snapshot of a result, and so its archivedUrl, is on
\* one of the recognized archive domains.
C14_SnapshotUrlsAreArchiveUrls ==
  /\ \A i \in 1..Len(resolved.snapshots) : isValidArchiveUrl(resolved.snapshots[i].url)
  /\ resolved.foundArchive => isValidArchiveUrl(resolved.archivedUrl)

\* The entry a cache held for a key before the last operation.
ArchiveEntryBefore == cacheOp.before[cacheOp.url]
TitleEntryBefore == TitleEntry(cacheOp.before, cacheOp.url)
ArchiveGetDone == cacheOp.cache = "archive" /\ cacheOp.op = "get"
TitleGetDone == cacheOp.cache = "title" /\ cacheOp.op = "get"
TitleSetDone == cacheOp.cache = "title" /\ cacheOp.op = "set"

\* C15: ResultCache.get and TitleCache.get return a stored value only while
\* now - storedAt <= ttl (5 minutes, 24 hours); a get that finds an entry with
\* now - storedAt > ttl reports a miss and deletes exactly that entry, leaving
\* every other entry unchanged.
C15_GetHonoursTtl ==
  /\ ArchiveGetDone /\ cacheOp.hit =>
       /\ cacheOp.url \in DOMAIN cacheOp.before
       /\ cacheOp.value = ArchiveEntryBefore.result
       /\ cacheOp.at - ArchiveEntryBefore.timestamp <= ArchiveTtl
  /\ ArchiveGetDone /\ cacheOp.url \in DOMAIN cacheOp.before
       /\ cacheOp.at - ArchiveEntryBefore.timestamp > ArchiveTtl =>
       /\ ~cacheOp.hit
       /\ DOMAIN archiveCache = DOMAIN cacheOp.before \ {cacheOp.url}
       /\ \A url \in DOMAIN archiveCache : archiveCache[url] = cacheOp.before[url]
  /\ TitleGetDone /\ cacheOp.hit =>
       /\ cacheOp.url \in TitleKeys(cacheOp.before)
       /\ cacheOp.value = TitleEntryBefore.title
       /\ cacheOp.at - TitleEntryBefore.timestamp <= TitleTtl
  /\ TitleGetDone /\ cacheOp.url \in TitleKeys(cacheOp.before)
       /\ cacheOp.at - TitleEntryBefore.timestamp > TitleTtl =>
       /\ ~cacheOp.hit
       /\ TitleKeys(titleCache) = TitleKeys(cacheOp.before) \ {cacheOp.url}
       /\ \A url \in TitleKeys(titleCache) :
            TitleEntry(titleCache, url) = TitleEntry(cacheOp.before, url)

\* A get of the title cache finds an entry one millisecond past the ttl and
\* deletes it while another entry stays; the archive cache holds an entry.
C15_Witness ==
  /\ TitleGetDone /\ ~cacheOp.hit
  /\ cacheOp.url \in TitleKeys(cacheOp.before)
  /\ cacheOp.at - TitleEntryBefore.timestamp = TitleTtl + 1
  /\ Len(cacheOp.before) = 2
  /\ Len(titleCache) = 1
  /\ cacheOps = 3

\* C16: after any sequence of get, set and clear operations the TitleCache
\* holds at most its maximum number of entries.
C16_TitleCacheBounded ==
  /\ Len(titleCache) <= TitleMaxSize
  /\ Cardinality(TitleKeys(titleCache)) = Len(titleCache)

\* A set of a new key has been done on a full title cache.
C16_Witness ==
  /\ TitleSetDone
  /\ Len(cacheOp.before) = TitleMaxSize
  /\ cacheOp.url \notin TitleKeys(cacheOp.before)
  /\ Len(titleCache) = TitleMaxSize

\* C17: a set with an absent key on a full TitleCache removes exactly one
\* entry, the one whose latest touch (its insertion or its most recent
\* successful get) is the oldest; a successful get makes the entry the most
\* recently used.
C17_EvictsLeastRecentlyTouched ==
  /\ TitleSetDone /\ Len(cacheOp.before) = TitleMaxSize
       /\ cacheOp.url \notin TitleKeys(cacheOp.before) =>
       /\ TitleKeys(titleCache) =
            (TitleKeys(cacheOp.before) \ {Head(cacheOp.touchBefore)}) \cup {cacheOp.url}
       /\ \A url \in TitleKeys(titleCache) \ {cacheOp.url} :
            TitleEntry(titleCache, url) = TitleEntry(cacheOp.before, url)
  /\ TitleGetDone /\ cacheOp.hit =>
       /\ titleCache # <<>>
       /\ titleCache[Len(titleCache)].url = cacheOp.url
  /\ [i \in 1..Len(titleCache) |-> titleCache[i].url] = touchOrder

\* The entry evicted is not the one inserted first: that one was read since.
C17_Witness ==
  /\ TitleSetDone
  /\ Len(cacheOp.before) = TitleMaxSize
  /\ cacheOp.url \notin TitleKeys(cacheOp.before)
  /\ cacheOp.before[Len(cacheOp.before)].timestamp < cacheOp.before[1].timestamp
  /\ Head(cacheOp.touchBefore) \notin TitleKeys(titleCache)

\* C18: classifyArchiveError is total and idempotent: for every error value
\* a catch block can hand it (status, message and text present or absent,
\* fields that are no strings, a null or undefined error) it returns one of
\* the six kinds without raising, and classifying the same value again gives
\* the same kind.
C18_ClassifierIsTotal ==
  classified # "none" =>
    /\ classified \in ArchiveErrorType
    /\ classifyArchiveError(caught) = classified

\* C19: classifyArchiveError returns IP_BLOCKED for every error with status
\* 403 whose message contains "forbidden", whose body has no CAPTCHA,
\* Cloudflare or challenge marker and that matches no rate-limit rule, and it
\* returns CAPTCHA_REQUIRED only for errors with status 403 whose body has
\* such a marker.
C19_ForbiddenIsIpBlocked ==
  classified # "none" /\ ~caught.isNull /\ caught.msg # NonString
    /\ caught.text # NonString =>
    /\ caught.status = 403 /\ "forbidden" \in caught.msg
         /\ caught.text \cap CaptchaMarkers = {}
         /\ caught.msg \cap {"rate limit", "too many requests"} = {} =>
         classified = IP_BLOCKED
    /\ classified = CAPTCHA_REQUIRED =>
         caught.status = 403 /\ caught.text \cap CaptchaMarkers # {}

\* C20: for every provider outcome, every raised error value and every retry
\* path included, getExistingArchive completes with a result (found, not
\* found, or not found and rate limited) and never lets an exception reach
\* its caller.
C20_CallAlwaysCompletes ==
  /\ pc # "thrown"
  /\ pc = "done" =>
       result \in {NotFoundResult, RateLimitedResult} \/ result.foundArchive

\* The body of the last Wayback answer is a header row followed by rows that
\* each carry a timestamp in their second cell.
CdxWellFormed(json) ==
  /\ json # <<>>
  /\ json[1] = CdxHeader
  /\ \A i \in 2..Len(json) : json[i].kind = "data"

\* C21: for an HTTP 200 CDX answer whose first row is the header and whose
\* other rows each carry a timestamp in their second column, the Wayback
\* path yields exactly one snapshot per data row and none for the header,
\* with the timestamp of the row and the url
\* "https://web.archive.org/web/" + timestamp + "/" + originalUrl.
C21_OneSnapshotPerCdxRow ==
  lookup.site = WAYBACK /\ CdxWellFormed(lookup.json) =>
    /\ Len(lookup.provided) = Len(lookup.json) - 1
    /\ \A i \in 1..Len(lookup.provided) :
         /\ lookup.provided[i].timestamp = lookup.json[i + 1].timestamp
         /\ lookup.provided[i].url =
              <<WAYBACK, "web", lookup.json[i + 1].timestamp, lookup.url>>
    /\ \A snapshot \in {lookup.provided[i] : i \in 1..Len(lookup.provided)} :
         \E i \in 1..Len(resolved.snapshots) : resolved.snapshots[i] = snapshot
    /\ Len(resolved.snapshots) = Len(lookup.provided)

\* An answer of a header and two data rows has given two snapshots.
C21_Witness ==
  /\ lookup.site = WAYBACK
  /\ lookup.url = "page"
  /\ CdxWellFormed(lookup.json)
  /\ Len(lookup.json) = 3
  /\ lookup.json[2].timestamp # lookup.json[3].timestamp
  /\ Len(resolved.snapshots) = 2

\* C22: a result returned by getExistingArchive comes from the service that
\* is configured: after archiveSite has been changed, a cache entry (positive
\* or negative) stored while another service was selected is not returned
\* for a lookup of the same URL.
C22_ResultIsOfConfiguredSite ==
  /\ pc = "done" /\ result.foundArchive => result.archivedUrl[1] = archiveSite
  /\ pc = "done" /\ cacheHit /\ prev.url = originalUrl /\ ~prev.hit => prev.site = archiveSite

\* C23: each attempt of getExistingArchive makes one waitIfNeeded followed
\* by at most one HTTP request to the archive service, under both providers
\* and also when GhostArchive probes the direct URL and then searches: no two
\* requests go to a service without a rate-limit wait between them.
C23_OneRequestPerAttempt == httpCount <= attempts

\* C24: when "Archive links in targeted files only" is confirmed, the vault
\* batch evaluates shouldExcludeFile with useInvertedExclusion = true for
\* every file it considers, so that only files in a target folder (or with a
\* target tag) are processed; the previous value of the setting is put back
\* only after that batch has finished, or the user cancelled.
C24_TargetedBatchIsInverted ==
  /\ targeting.vaultRun.state # "none" /\ targeting.vaultRun.targeted =>
       /\ targeting.vaultRun.inverted
       /\ \A file \in targeting.vaultRun.filesToProcess :
            InFolders(file, targeting.vaultRun.folders)
  /\ targeting.vaultModal.open /\ targeting.vaultModal.targeted =>
       targeting.useInvertedExclusion

\* C25: GhostArchive getSnapshots sends the search request for every URL
\* whose direct probe gave no candidate and for every URL from which no video
\* id could be extracted; it returns an empty list only after a search that
\* found nothing.
C25_GhostAlwaysSearches ==
  pc = "done" /\ ~cacheHit /\ archiveSite = GHOST =>
    /\ ~HasVideoId(originalUrl) => httpCount = 1
    /\ HasVideoId(originalUrl) /\ ~result.foundArchive => httpCount = 2
    /\ HasVideoId(originalUrl) /\ httpCount = 1 =>
         result.foundArchive /\ result.archivedUrl = GhostDirectUrl(originalUrl)

\* The keys the archive cache held before the last get whose normalized form
\* is that of the URL asked for, and whose entry was within its ttl.
SameNormalizedKeys ==
  {key \in DOMAIN cacheOp.before :
     /\ normalizeUrl(key) = normalizeUrl(cacheOp.url)
     /\ cacheOp.at - cacheOp.before[key].timestamp <= ArchiveTtl}

\* C26: the result cache is keyed by the normalized URL: two original URLs
\* that differ only in the letter case of the host or in a trailing slash map
\* to the same entry, so the lookup of the second is answered from the entry
\* stored for the first; URLs that differ in their query string map to
\* different entries.
C26_CacheKeyIsNormalized ==
  ArchiveGetDone => (cacheOp.hit <=> SameNormalizedKeys # {})

\* C27: whenever archiveAllLinksInVault reports its result, at normal
\* completion or when it stops on a rate limit, the reported archived count
\* is the number of link replacements written to files with vault.modify:
\* every replacement is counted once and every counted one is persisted.
C27_ReportedCountIsPersisted ==
  vault.reported.shown => vault.reported.archivedCount = vault.persisted

\* C28: archiveAllLinksInVault never loses an edit made to a file while the
\* batch processes it: when the content changes between the batch's
\* vault.read and its vault.modify, the content written back still holds the
\* change.
C28_UserEditSurvives ==
  \A file \in vault.edited :
    \E i \in 1..Len(vault.disk[file]) : vault.disk[file][i] = "user"

\* C29: TitleCache.set(k, v) for a key k the cache already holds changes
\* only k's entry: no other key is removed, even when the cache is at its
\* maximum size, and k becomes the most recently used key.
C29_SetOfPresentKeyKeepsOthers ==
  TitleSetDone /\ cacheOp.url \in TitleKeys(cacheOp.before) =>
    /\ \A url \in TitleKeys(cacheOp.before) \ {cacheOp.url} :
         /\ url \in TitleKeys(titleCache)
         /\ TitleEntry(titleCache, url) = TitleEntry(cacheOp.before, url)
    /\ titleCache[Len(titleCache)].url = cacheOp.url

\* The modal of call i has been closed and the call still awaits its promise.
ClosedUnresolved(i) ==
  /\ i <= Len(modalCalls)
  /\ modalCalls[i].state = "awaiting"
  /\ ~(modal.open /\ modal.call = i)

\* C30: the promise of showArchivePromptModal and of showSnapshotModal is
\* eventually resolved whenever the modal is closed, by Cancel, by Save or
\* Insert Snapshot, or by dismissing it without a button: every
\* archiveLinkAtCursor call that opened a modal eventually completes.
C30_ClosedModalResolves ==
  \A i \in 1..MaxModalCalls :
    ClosedUnresolved(i) ~> (i <= Len(modalCalls) /\ modalCalls[i].state = "completed")

====
